---- MODULE Spec2Model ----
(***************************************************************************)
(* A model of the singlyton cells: the AtomicRefCell-backed Singleton,     *)
(* SingletonUninit and SingletonOption of src/lib.rs (debug build) and the *)
(* RefCell-backed, thread-tracking Singleton, SingletonUninit and          *)
(* SingletonLazy of src/nightly/debug.rs; and the UnsafeCell-backed        *)
(* release build of the three cells of src/lib.rs (SpecRelease).  Under    *)
(* SpecBoth the debug and the release build of a lib.rs cell run the same  *)
(* calls side by side.                                                     *)
(*                                                                         *)
(* Every method is written as the sequence of memory accesses its body     *)
(* performs (Code).  Under Spec a call runs to completion in one step;     *)
(* under SpecInterleaved another thread may run between two accesses.      *)
(***************************************************************************)
EXTENDS Integers, Sequences, FiniteSets, TLC

\* The largest number of shared handles kept alive at once.
MaxShared == 2

\* The largest number of exclusive handles kept alive at once in the release
\* build (the checked builds never grant a second one).
MaxExclusive == 2

\* The history counters (inits, writes, runs) stop counting here.
MaxCount == 2

\* The main thread and one std::thread::spawn'ed thread, as in tests.rs.
Threads == {"main", "spawned"}

\* The values of T stored in the cells (the strings of tests.rs).
Values == {"Hello", "Test"}

\* Option::None, for Option<T>, Option<ThreadId>, Option<F> and an empty OnceCell.
None == "None"

\* MaybeUninit::uninit(): storage that holds no T.
Uninit == "uninit"

LibKinds == {"Singleton", "SingletonUninit", "SingletonOption"}

NightlyKinds == {"nightly::Singleton", "nightly::SingletonUninit", "nightly::SingletonLazy"}

UninitKinds == {"SingletonUninit", "nightly::SingletonUninit"}

Kinds == LibKinds \cup NightlyKinds

\* The cells of lib.rs built without debug_assertions.
ReleaseKinds == {"release::Singleton", "release::SingletonUninit", "release::SingletonOption"}

VARIABLES
    kind,        \* which cell type the static is
    preemptive,  \* FALSE: calls are atomic; TRUE: threads interleave between accesses
    cell,        \* the fields of the cell
    held,        \* held[t]: the handles thread t keeps alive
    pc,          \* pc[t]: the call thread t is inside, or IdleFrame
    last,        \* the most recent completed event
    accessed,    \* the threads that have completed a call on the cell
    model,       \* reference value: what the most recent write stored
    inits,       \* number of init calls that returned normally
    writes,      \* number of writes of a value (replace, init, *handle = v)
    runs,        \* number of times the lazy initializer was run
    twin         \* the release build of the same static, given the same calls

vars == <<kind, preemptive, cell, held, pc, last, accessed, model, inits, writes, runs, twin>>

----------------------------------------------------------------------------
(* The methods, as sequences of accesses.                                   *)

\* thread_check: the match reads self.thread, then compares or writes it.
thread_check == <<"thread_read", "thread_match">>

\* lib.rs Singleton
Singleton_get == <<"borrow", "ret_ref">>

Singleton_get_mut == <<"borrow_mut", "ret_mut">>

Singleton_as_ptr == <<"borrow", "drop", "ret">>

Singleton_as_mut_ptr == <<"borrow_mut", "drop", "ret">>

Singleton_replace == <<"borrow_mut", "write", "drop", "ret">>

\* lib.rs SingletonUninit
SingletonUninit_get == <<"uninit_check", "borrow", "ret_ref">>

SingletonUninit_get_mut == <<"uninit_check", "borrow_mut", "ret_mut">>

SingletonUninit_as_ptr == <<"uninit_check", "borrow_mut", "drop", "ret">>

SingletonUninit_as_mut_ptr == <<"uninit_check", "borrow_mut", "drop", "ret">>

\* A replace that drops the old value and never writes the new one.
SingletonUninit_replace_nowrite == <<"uninit_check", "borrow_mut", "drop", "ret">>

SingletonUninit_replace == <<"uninit_check", "borrow_mut", "write", "drop", "ret">>

SingletonUninit_init == <<"init_check", "borrow_mut", "write", "drop", "set_init", "ret">>

\* lib.rs SingletonOption
SingletonOption_as_option == <<"borrow", "ret_ref">>

SingletonOption_as_option_mut == <<"borrow_mut", "ret_mut">>

SingletonOption_as_option_ptr == <<"ret">>

SingletonOption_as_option_mut_ptr == <<"ret">>

SingletonOption_get == <<"borrow", "unwrap", "ret_ref">>

SingletonOption_get_mut == <<"borrow_mut", "unwrap", "ret_mut">>

SingletonOption_replace == <<"borrow_mut", "write", "drop", "ret">>

SingletonOption_take == <<"borrow_mut", "take", "drop", "ret">>

\* An is_some that reads through get_unchecked, as the pointer accessors do.
SingletonOption_is_some_unchecked == <<"is_some", "ret">>

SingletonOption_is_some == <<"borrow", "is_some", "drop", "ret">>

SingletonOption_is_none == <<"borrow", "is_none", "drop", "ret">>

\* nightly/debug.rs Singleton
NSingleton_get == thread_check \o <<"borrow", "ret_ref">>

NSingleton_get_mut == thread_check \o <<"borrow_mut", "ret_mut">>

NSingleton_as_ptr == thread_check \o <<"borrow", "drop", "ret">>

NSingleton_as_mut_ptr == thread_check \o <<"borrow_mut", "drop", "ret">>

NSingleton_replace == thread_check \o <<"borrow_mut", "write", "drop", "ret">>

\* nightly/debug.rs SingletonUninit
NSingletonUninit_get == <<"uninit_check">> \o thread_check \o <<"borrow", "ret_ref">>

NSingletonUninit_get_mut == <<"uninit_check">> \o thread_check \o <<"borrow_mut", "ret_mut">>

NSingletonUninit_as_mut_ptr == <<"uninit_check">> \o thread_check \o <<"borrow_mut", "drop", "ret">>

NSingletonUninit_as_ptr == <<"uninit_check">> \o thread_check \o <<"borrow", "drop", "ret">>

NSingletonUninit_replace == <<"uninit_check">> \o thread_check \o <<"borrow_mut", "write", "drop", "ret">>

NSingletonUninit_init ==
    thread_check \o <<"init_check">> \o thread_check
        \o <<"borrow_mut", "write", "drop", "set_init", "ret">>

NSingletonUninit_init_or_replace ==
    thread_check \o <<"read_init", "borrow_mut", "write", "drop", "set_init_else", "ret">>

\* nightly/debug.rs SingletonLazy
SingletonLazy_get_lazy == <<"get_lazy">>

SingletonLazy_get == thread_check \o SingletonLazy_get_lazy \o <<"borrow", "ret_ref">>

SingletonLazy_get_mut == thread_check \o SingletonLazy_get_lazy \o <<"borrow_mut", "ret_mut">>

SingletonLazy_as_ptr == thread_check \o SingletonLazy_get_lazy \o <<"borrow", "drop", "ret">>

SingletonLazy_as_mut_ptr == thread_check \o SingletonLazy_get_lazy \o <<"borrow_mut", "drop", "ret">>

\* A replace that stores into the cell without resolving it first.
SingletonLazy_replace_unforced == thread_check \o <<"borrow_mut", "write", "drop", "ret">>

SingletonLazy_replace == thread_check \o SingletonLazy_get_lazy \o <<"borrow_mut", "write", "drop", "ret">>

\* lib.rs, release build: uninit_check has an empty body.
uninit_check_release == << >>

\* lib.rs Singleton over the release SinglytonCell
RSingleton_get == <<"ref", "ret_ref">>

RSingleton_get_mut == <<"ref_mut", "ret_mut">>

RSingleton_as_ptr == <<"ref", "drop", "ret">>

RSingleton_as_mut_ptr == <<"ref_mut", "drop", "ret">>

RSingleton_replace == <<"ref_mut", "write", "drop", "ret">>

\* lib.rs SingletonUninit, release build
RSingletonUninit_get == uninit_check_release \o <<"ref", "ret_ref">>

RSingletonUninit_get_mut == uninit_check_release \o <<"ref_mut", "ret_mut">>

RSingletonUninit_as_ptr == uninit_check_release \o <<"ref_mut", "drop", "ret">>

RSingletonUninit_as_mut_ptr == uninit_check_release \o <<"ref_mut", "drop", "ret">>

RSingletonUninit_replace == uninit_check_release \o <<"ref_mut", "write", "drop", "ret">>

\* A release init that returns without writing the value.
RSingletonUninit_init_nowrite == <<"ref_mut", "drop", "ret">>

RSingletonUninit_init == <<"ref_mut", "write", "drop", "ret">>

\* lib.rs SingletonOption, release build
RSingletonOption_as_option == <<"ref", "ret_ref">>

RSingletonOption_as_option_mut == <<"ref_mut", "ret_mut">>

RSingletonOption_as_option_ptr == <<"ref", "drop", "ret">>

RSingletonOption_as_option_mut_ptr == <<"ref_mut", "drop", "ret">>

RSingletonOption_get == <<"ref", "unwrap", "ret_ref">>

RSingletonOption_get_mut == <<"ref_mut", "unwrap", "ret_mut">>

RSingletonOption_replace == <<"ref_mut", "write", "drop", "ret">>

RSingletonOption_take == <<"ref_mut", "take", "drop", "ret">>

RSingletonOption_is_some == <<"ref", "is_some", "drop", "ret">>

RSingletonOption_is_none == <<"ref", "is_none", "drop", "ret">>

\* The methods of each cell type.
Ops(k) ==
    CASE k = "Singleton" -> {"get", "get_mut", "as_ptr", "as_mut_ptr", "replace"}
      [] k = "SingletonUninit" ->
            {"get", "get_mut", "as_ptr", "as_mut_ptr", "replace", "init"}
      [] k = "SingletonOption" ->
            {"as_option", "as_option_mut", "as_option_ptr", "as_option_mut_ptr",
             "get", "get_mut", "replace", "take", "is_some", "is_none"}
      [] k = "nightly::Singleton" -> {"get", "get_mut", "as_ptr", "as_mut_ptr", "replace"}
      [] k = "nightly::SingletonUninit" ->
            {"get", "get_mut", "as_ptr", "as_mut_ptr", "replace", "init", "init_or_replace"}
      [] k = "nightly::SingletonLazy" -> {"get", "get_mut", "as_ptr", "as_mut_ptr", "replace"}
      [] k = "release::Singleton" -> {"get", "get_mut", "as_ptr", "as_mut_ptr", "replace"}
      [] k = "release::SingletonUninit" ->
            {"get", "get_mut", "as_ptr", "as_mut_ptr", "replace", "init"}
      [] k = "release::SingletonOption" ->
            {"as_option", "as_option_mut", "as_option_ptr", "as_option_mut_ptr",
             "get", "get_mut", "replace", "take", "is_some", "is_none"}

Code(k, op) ==
    CASE k = "Singleton" ->
            (CASE op = "get" -> Singleton_get
               [] op = "get_mut" -> Singleton_get_mut
               [] op = "as_ptr" -> Singleton_as_ptr
               [] op = "as_mut_ptr" -> Singleton_as_mut_ptr
               [] op = "replace" -> Singleton_replace)
      [] k = "SingletonUninit" ->
            (CASE op = "get" -> SingletonUninit_get
               [] op = "get_mut" -> SingletonUninit_get_mut
               [] op = "as_ptr" -> SingletonUninit_as_ptr
               [] op = "as_mut_ptr" -> SingletonUninit_as_mut_ptr
               [] op = "replace" -> SingletonUninit_replace
               [] op = "init" -> SingletonUninit_init)
      [] k = "SingletonOption" ->
            (CASE op = "as_option" -> SingletonOption_as_option
               [] op = "as_option_mut" -> SingletonOption_as_option_mut
               [] op = "as_option_ptr" -> SingletonOption_as_option_ptr
               [] op = "as_option_mut_ptr" -> SingletonOption_as_option_mut_ptr
               [] op = "get" -> SingletonOption_get
               [] op = "get_mut" -> SingletonOption_get_mut
               [] op = "replace" -> SingletonOption_replace
               [] op = "take" -> SingletonOption_take
               [] op = "is_some" -> SingletonOption_is_some
               [] op = "is_none" -> SingletonOption_is_none)
      [] k = "nightly::Singleton" ->
            (CASE op = "get" -> NSingleton_get
               [] op = "get_mut" -> NSingleton_get_mut
               [] op = "as_ptr" -> NSingleton_as_ptr
               [] op = "as_mut_ptr" -> NSingleton_as_mut_ptr
               [] op = "replace" -> NSingleton_replace)
      [] k = "nightly::SingletonUninit" ->
            (CASE op = "get" -> NSingletonUninit_get
               [] op = "get_mut" -> NSingletonUninit_get_mut
               [] op = "as_ptr" -> NSingletonUninit_as_ptr
               [] op = "as_mut_ptr" -> NSingletonUninit_as_mut_ptr
               [] op = "replace" -> NSingletonUninit_replace
               [] op = "init" -> NSingletonUninit_init
               [] op = "init_or_replace" -> NSingletonUninit_init_or_replace)
      [] k = "nightly::SingletonLazy" ->
            (CASE op = "get" -> SingletonLazy_get
               [] op = "get_mut" -> SingletonLazy_get_mut
               [] op = "as_ptr" -> SingletonLazy_as_ptr
               [] op = "as_mut_ptr" -> SingletonLazy_as_mut_ptr
               [] op = "replace" -> SingletonLazy_replace)
      [] k = "release::Singleton" ->
            (CASE op = "get" -> RSingleton_get
               [] op = "get_mut" -> RSingleton_get_mut
               [] op = "as_ptr" -> RSingleton_as_ptr
               [] op = "as_mut_ptr" -> RSingleton_as_mut_ptr
               [] op = "replace" -> RSingleton_replace)
      [] k = "release::SingletonUninit" ->
            (CASE op = "get" -> RSingletonUninit_get
               [] op = "get_mut" -> RSingletonUninit_get_mut
               [] op = "as_ptr" -> RSingletonUninit_as_ptr
               [] op = "as_mut_ptr" -> RSingletonUninit_as_mut_ptr
               [] op = "replace" -> RSingletonUninit_replace
               [] op = "init" -> RSingletonUninit_init)
      [] k = "release::SingletonOption" ->
            (CASE op = "as_option" -> RSingletonOption_as_option
               [] op = "as_option_mut" -> RSingletonOption_as_option_mut
               [] op = "as_option_ptr" -> RSingletonOption_as_option_ptr
               [] op = "as_option_mut_ptr" -> RSingletonOption_as_option_mut_ptr
               [] op = "get" -> RSingletonOption_get
               [] op = "get_mut" -> RSingletonOption_get_mut
               [] op = "replace" -> RSingletonOption_replace
               [] op = "take" -> RSingletonOption_take
               [] op = "is_some" -> RSingletonOption_is_some
               [] op = "is_none" -> RSingletonOption_is_none)

----------------------------------------------------------------------------
(* One call in progress: the frame of the calling thread and the cell.      *)

IdleFrame ==
    [op |-> "idle", arg |-> None, ip |-> 0, seen |-> None, flag |-> FALSE, temp |-> "none"]

NewFrame(op, arg) ==
    [op |-> op, arg |-> arg, ip |-> 1, seen |-> None, flag |-> FALSE, temp |-> "none"]

\* A drop that frees the cell whichever handle goes, as if the state were a flag.
DropHandleClears(c, h) ==
    CASE h \in {"sh", "ex"} -> [c EXCEPT !.borrow = 0]
      [] OTHER -> c

\* Dropping a handle: a shared one decrements the count, an exclusive one clears it.
DropHandle(c, h) ==
    CASE h = "sh" -> [c EXCEPT !.borrow = @ - 1]
      [] h = "ex" -> [c EXCEPT !.borrow = 0]
      [] OTHER -> c

\* A panic that leaks the temporary handle instead of dropping it.
PanicLeak(m, e) == [m EXCEPT !.status = e, !.fr.temp = "none"]

\* panic!: the call ends with the error; unwinding drops the temporary handle.
Panic(m, e) ==
    [m EXCEPT !.status = e, !.cell = DropHandle(m.cell, m.fr.temp), !.fr.temp = "none"]

Adv(m) == [m EXCEPT !.fr.ip = @ + 1]

\* A shared borrow that is granted even while the cell is exclusively borrowed.
cell_get_unchecked(m) ==
    Adv([m EXCEPT !.cell.borrow = @ + 1, !.fr.temp = "sh"])

\* SinglytonCell::get, RefCell::borrow: refused while exclusively borrowed.
cell_get(m) ==
    IF m.cell.borrow < 0
    THEN Panic(m, "BorrowConflict")
    ELSE Adv([m EXCEPT !.cell.borrow = @ + 1, !.fr.temp = "sh"])

\* An exclusive borrow that only looks for another writer, not for readers.
cell_get_mut_ignoring_readers(m) ==
    IF m.cell.borrow < 0
    THEN Panic(m, "BorrowConflict")
    ELSE Adv([m EXCEPT !.cell.borrow = -1, !.fr.temp = "ex"])

\* SinglytonCell::get_mut, RefCell::borrow_mut: refused while borrowed at all.
cell_get_mut(m) ==
    IF m.cell.borrow # 0
    THEN Panic(m, "BorrowConflict")
    ELSE Adv([m EXCEPT !.cell.borrow = -1, !.fr.temp = "ex"])

\* Release SinglytonCell::get: &*self.0.get(), a plain reference, no check.
release_get(m) == Adv([m EXCEPT !.fr.temp = "ref"])

\* A release get_mut that keeps the borrow flag of the checked cell.
release_get_mut_checked(m) ==
    IF m.cell.borrow # 0
    THEN Panic(m, "BorrowConflict")
    ELSE Adv([m EXCEPT !.cell.borrow = -1, !.fr.temp = "ref_mut"])

\* Release SinglytonCell::get_mut: &mut *self.0.get(), no check.
release_get_mut(m) == Adv([m EXCEPT !.fr.temp = "ref_mut"])

\* match unsafe { &mut *self.thread.get() }: the read of the owning thread.
thread_read(m) == Adv([m EXCEPT !.fr.seen = m.cell.thread])

\* A thread_check that adopts the calling thread instead of panicking.
thread_match_rebind(m, t) ==
    IF m.fr.seen # t THEN Adv([m EXCEPT !.cell.thread = t]) ELSE Adv(m)

\* The arms of the match, on the value that was read.
thread_match(m, t) ==
    IF m.fr.seen = None
    THEN Adv([m EXCEPT !.cell.thread = t])
    ELSE IF m.fr.seen # t
         THEN Panic(m, "ThreadAffinityViolation")
         ELSE Adv(m)

\* An uninit_check that never panics (the release-build body).
uninit_check_off(m) == Adv(m)

uninit_check(m) ==
    IF ~m.cell.initialized THEN Panic(m, "NotInitialized") ELSE Adv(m)

\* An init that does not look at the flag.
init_check_off(m) == Adv(m)

\* init: if *initialized { panic!(..) }
init_check(m) ==
    IF m.cell.initialized THEN Panic(m, "AlreadyInitialized") ELSE Adv(m)

\* init_or_replace: if *initialized { .. } else { .. }
read_init(m) == Adv([m EXCEPT !.fr.flag = m.cell.initialized])

set_init(m) == Adv([m EXCEPT !.cell.initialized = TRUE])

\* An init_or_replace whose branches both assign the flag: the replace branch
\* clears it.
set_init_toggle(m) == Adv([m EXCEPT !.cell.initialized = ~m.fr.flag])

set_init_else(m) ==
    IF m.fr.flag THEN Adv(m) ELSE Adv([m EXCEPT !.cell.initialized = TRUE])

\* A write that is lost.
write_lost(m) == Adv(m)

\* *handle = val, MaybeUninit::write(val), Option::replace(val)
write(m) == Adv([m EXCEPT !.cell.val = m.fr.arg])

\* opt.as_ref().unwrap() inside map_ref / map_ref_mut
unwrap(m) ==
    IF m.cell.val = None THEN Panic(m, "EmptyValue") ELSE Adv(m)

\* A take that copies the value out and leaves it in place.
opt_take_keep(m) == Adv([m EXCEPT !.out = m.cell.val])

\* Option::take
opt_take(m) == Adv([m EXCEPT !.out = m.cell.val, !.cell.val = None])

opt_is_some(m) ==
    Adv([m EXCEPT !.out = IF m.cell.val # None THEN "true" ELSE "false"])

opt_is_none(m) ==
    Adv([m EXCEPT !.out = IF m.cell.val = None THEN "true" ELSE "false"])

\* A lazy cell that calls the initializer on every access, without taking it.
get_or_init_rerun(m) ==
    IF m.cell.initializer = None
    THEN Adv(m)
    ELSE Adv([m EXCEPT !.cell.val = m.cell.initializer, !.ran = 1])

\* OnceCell::get_or_init(|| RefCell::new((initializer.take().unwrap())()))
get_or_init(m) ==
    IF m.cell.val # None
    THEN Adv(m)
    ELSE IF m.cell.initializer = None
         THEN Panic(m, "UnwrapNone")
         ELSE Adv([m EXCEPT !.cell.val = m.cell.initializer,
                            !.cell.initializer = None,
                            !.ran = 1])

\* A temporary handle that is forgotten (mem::forget) instead of dropped.
drop_temp_forget(m) == Adv([m EXCEPT !.fr.temp = "none"])

\* End of the statement that created the temporary handle.
drop_temp(m) ==
    Adv([m EXCEPT !.cell = DropHandle(m.cell, m.fr.temp), !.fr.temp = "none"])

\* Return without a handle.
ret(m) ==
    [m EXCEPT !.status = "ok", !.cell = DropHandle(m.cell, m.fr.temp), !.fr.temp = "none"]

\* Return the handle to the caller, who sees the stored value through it.
ret_handle(m) ==
    [m EXCEPT !.status = "ok", !.give = m.fr.temp, !.out = m.cell.val, !.fr.temp = "none"]

Exec(m, t, ins) ==
    CASE ins = "borrow" -> cell_get(m)
      [] ins = "borrow_mut" -> cell_get_mut(m)
      [] ins = "ref" -> release_get(m)
      [] ins = "ref_mut" -> release_get_mut(m)
      [] ins = "thread_read" -> thread_read(m)
      [] ins = "thread_match" -> thread_match(m, t)
      [] ins = "uninit_check" -> uninit_check(m)
      [] ins = "init_check" -> init_check(m)
      [] ins = "read_init" -> read_init(m)
      [] ins = "set_init" -> set_init(m)
      [] ins = "set_init_else" -> set_init_else(m)
      [] ins = "write" -> write(m)
      [] ins = "unwrap" -> unwrap(m)
      [] ins = "take" -> opt_take(m)
      [] ins = "is_some" -> opt_is_some(m)
      [] ins = "is_none" -> opt_is_none(m)
      [] ins = "get_lazy" -> get_or_init(m)
      [] ins = "drop" -> drop_temp(m)
      [] ins = "ret" -> ret(m)
      [] ins = "ret_ref" -> ret_handle(m)
      [] ins = "ret_mut" -> ret_handle(m)

\* Instructions that touch nothing another thread can see.
LocalIns == {"ret", "ret_ref", "ret_mut"}

NextIns(k, m) == Code(k, m.fr.op)[m.fr.ip]

\* A whole call, start to return or panic.
RECURSIVE Run(_, _, _)
Run(k, m, t) ==
    IF m.status # "run" THEN m ELSE Run(k, Exec(m, t, NextIns(k, m)), t)

RECURSIVE RunLocal(_, _, _)
RunLocal(k, m, t) ==
    IF m.status = "run" /\ NextIns(k, m) \in LocalIns
    THEN RunLocal(k, Exec(m, t, NextIns(k, m)), t)
    ELSE m

\* One access of a call, and the return if nothing else follows.
Step(k, m, t) == RunLocal(k, Exec(m, t, NextIns(k, m)), t)

Machine(c, fr) ==
    [cell |-> c, fr |-> fr, status |-> "run", out |-> None, give |-> "none", ran |-> 0]

----------------------------------------------------------------------------
(* The state machine.                                                       *)

NoHandles == [sh |-> 0, ex |-> 0]

Give(h, g) ==
    CASE g \in {"sh", "ref"} -> [h EXCEPT !.sh = @ + 1]
      [] g \in {"ex", "ref_mut"} -> [h EXCEPT !.ex = @ + 1]
      [] OTHER -> h

RECURSIVE SumShared(_, _)
SumShared(h, S) ==
    IF S = {} THEN 0
    ELSE LET t == CHOOSE x \in S : TRUE IN h[t].sh + SumShared(h, S \ {t})

\* Shared handles alive or about to be returned by a call in progress.
SharedWanted ==
    SumShared(held, Threads)
        + Cardinality({t \in Threads : pc[t].op \in {"get", "as_option"}})

\* Exclusive handles alive (more than one only in the release build).
ExclusiveHeld == held["main"].ex + held["spawned"].ex

Writes == {"replace", "init", "init_or_replace"}

\* The reference value after a call that returned normally.
ModelAfter(op, arg) ==
    IF op \in Writes THEN arg ELSE IF op = "take" THEN None ELSE model

Count(n, b) == IF b /\ n < MaxCount THEN n + 1 ELSE n

\* The release build of each cell of lib.rs.
ReleaseOf(k) ==
    CASE k = "Singleton" -> "release::Singleton"
      [] k = "SingletonUninit" -> "release::SingletonUninit"
      [] k = "SingletonOption" -> "release::SingletonOption"

\* The same call made on the release build: its cell, result and output, and
\* whether the debug build has returned normally from every call so far.
TwinAfter(t, op, arg, res) ==
    IF twin.on
    THEN LET r == Run(ReleaseOf(kind), Machine(twin.cell, NewFrame(op, arg)), t)
         IN  [on |-> TRUE, cell |-> r.cell, res |-> r.status, out |-> r.out,
              clean |-> twin.clean /\ res = "ok"]
    ELSE twin

\* Record the effect of the accesses m of a call by t.
Apply(t, m) ==
    /\ cell' = m.cell
    /\ runs' = Count(runs, m.ran = 1)
    /\ UNCHANGED <<kind, preemptive>>
    /\ IF m.status = "run"
       THEN /\ pc' = [pc EXCEPT ![t] = m.fr]
            /\ UNCHANGED <<held, last, accessed, model, inits, writes, twin>>
       ELSE /\ pc' = [pc EXCEPT ![t] = IdleFrame]
            /\ held' = [held EXCEPT ![t] = Give(@, m.give)]
            /\ last' = [op |-> m.fr.op, t |-> t, arg |-> m.fr.arg,
                        res |-> m.status, out |-> m.out]
            /\ accessed' = accessed \cup {t}
            /\ model' = IF m.status = "ok" THEN ModelAfter(m.fr.op, m.fr.arg) ELSE model
            /\ inits' = Count(inits, m.fr.op = "init" /\ m.status = "ok")
            /\ writes' = Count(writes, m.fr.op \in Writes /\ m.status = "ok")
            /\ twin' = TwinAfter(t, m.fr.op, m.fr.arg, m.status)

Call(t, op, arg) ==
    /\ pc[t] = IdleFrame
    /\ op \in Ops(kind)
    /\ op \in {"get", "as_option"} => SharedWanted < MaxShared
    /\ (kind \in ReleaseKinds /\ op \in {"get_mut", "as_option_mut"})
          => ExclusiveHeld < MaxExclusive
    /\ LET m == Machine(cell, NewFrame(op, arg))
       IN  Apply(t, IF preemptive THEN Step(kind, m, t) ELSE Run(kind, m, t))

get(t) == Call(t, "get", None)

get_mut(t) == Call(t, "get_mut", None)

as_ptr(t) == Call(t, "as_ptr", None)

as_mut_ptr(t) == Call(t, "as_mut_ptr", None)

replace(t, v) == Call(t, "replace", v)

init(t, v) == Call(t, "init", v)

init_or_replace(t, v) == Call(t, "init_or_replace", v)

as_option(t) == Call(t, "as_option", None)

as_option_mut(t) == Call(t, "as_option_mut", None)

as_option_ptr(t) == Call(t, "as_option_ptr", None)

as_option_mut_ptr(t) == Call(t, "as_option_mut_ptr", None)

take(t) == Call(t, "take", None)

is_some(t) == Call(t, "is_some", None)

is_none(t) == Call(t, "is_none", None)

\* The next access of the call thread t is inside.
Resume(t) ==
    /\ pc[t] # IdleFrame
    /\ Apply(t, Step(kind, Machine(cell, pc[t]), t))

Event(t, op, arg) == [op |-> op, t |-> t, arg |-> arg, res |-> "ok", out |-> None]

\* Drop of a SinglytonRef / Ref.
drop_ref(t) ==
    /\ pc[t] = IdleFrame
    /\ held[t].sh > 0
    /\ cell' = DropHandle(cell, IF kind \in ReleaseKinds THEN "ref" ELSE "sh")
    /\ held' = [held EXCEPT ![t].sh = @ - 1]
    /\ last' = Event(t, "drop_ref", None)
    /\ UNCHANGED <<kind, preemptive, pc, accessed, model, inits, writes, runs, twin>>

\* Drop of a SinglytonRefMut / RefMut.
drop_mut(t) ==
    /\ pc[t] = IdleFrame
    /\ held[t].ex > 0
    /\ cell' = DropHandle(cell, IF kind \in ReleaseKinds THEN "ref_mut" ELSE "ex")
    /\ held' = [held EXCEPT ![t].ex = @ - 1]
    /\ last' = Event(t, "drop_mut", None)
    /\ UNCHANGED <<kind, preemptive, pc, accessed, model, inits, writes, runs, twin>>

\* *handle = v through an exclusive handle (DerefMut).
deref_mut(t, v) ==
    /\ pc[t] = IdleFrame
    /\ held[t].ex > 0
    /\ cell' = [cell EXCEPT !.val = v]
    /\ model' = v
    /\ writes' = Count(writes, TRUE)
    /\ last' = Event(t, "deref_mut", v)
    /\ twin' = IF twin.on THEN [twin EXCEPT !.cell.val = v, !.res = "ok", !.out = None]
                ELSE twin
    /\ UNCHANGED <<kind, preemptive, held, pc, accessed, inits, runs>>

\* The const constructors: [fields of the cell, reference value].
NewCell(flag, val, f) ==
    [borrow |-> 0, thread |-> None, initialized |-> flag, val |-> val, initializer |-> f]

Constructed(k) ==
    CASE k \in {"Singleton", "nightly::Singleton", "release::Singleton"} ->
            {NewCell(TRUE, v, None) : v \in Values}
      [] k = "SingletonUninit" ->
            {NewCell(FALSE, Uninit, None)} \cup {NewCell(TRUE, v, None) : v \in Values}
      [] k = "nightly::SingletonUninit" -> {NewCell(FALSE, Uninit, None)}
      [] k = "release::SingletonUninit" ->
            {NewCell(FALSE, Uninit, None)} \cup {NewCell(FALSE, v, None) : v \in Values}
      [] k \in {"SingletonOption", "release::SingletonOption"} ->
            {NewCell(TRUE, None, None)} \cup {NewCell(TRUE, v, None) : v \in Values}
      [] k = "nightly::SingletonLazy" -> {NewCell(TRUE, None, f) : f \in Values}

InitCommon ==
    /\ cell \in Constructed(kind)
    /\ held = [t \in Threads |-> NoHandles]
    /\ pc = [t \in Threads |-> IdleFrame]
    /\ last = Event(None, "new", None)
    /\ accessed = {}
    /\ model = (IF kind = "nightly::SingletonLazy" THEN cell.initializer
                ELSE IF cell.val = Uninit THEN None ELSE cell.val)
    /\ inits = 0
    /\ writes = 0
    /\ runs = 0

\* No release build runs alongside.
TwinOff ==
    [on |-> FALSE, cell |-> NewCell(FALSE, None, None), res |-> "ok", out |-> None,
     clean |-> TRUE]

Init == kind \in Kinds /\ InitCommon /\ preemptive = FALSE /\ twin = TwinOff

InitRelease == kind \in ReleaseKinds /\ InitCommon /\ preemptive = FALSE /\ twin = TwinOff

\* A lib.rs static compiled twice: the same constructor in both builds.
InitBoth ==
    /\ kind \in LibKinds
    /\ InitCommon
    /\ preemptive = FALSE
    /\ \E c \in Constructed(ReleaseOf(kind)) :
          /\ c.val = cell.val
          /\ twin = [on |-> TRUE, cell |-> c, res |-> "ok", out |-> None, clean |-> TRUE]

InitInterleaved ==
    /\ kind \in Kinds
    /\ InitCommon
    /\ preemptive = TRUE
    /\ cell.val \in {"Hello", None, Uninit}
    /\ cell.initializer \in {"Hello", None}
    /\ twin = TwinOff

\* The values written by calls: all of them when calls are atomic, one when
\* accesses interleave (the interleavings do not depend on the value).
Args == IF preemptive THEN {"Test"} ELSE Values

Next ==
    \/ \E t \in Threads : get(t)
    \/ \E t \in Threads : get_mut(t)
    \/ \E t \in Threads : as_ptr(t)
    \/ \E t \in Threads : as_mut_ptr(t)
    \/ \E t \in Threads, v \in Args : replace(t, v)
    \/ \E t \in Threads, v \in Args : init(t, v)
    \/ \E t \in Threads, v \in Args : init_or_replace(t, v)
    \/ \E t \in Threads : as_option(t)
    \/ \E t \in Threads : as_option_mut(t)
    \/ \E t \in Threads : as_option_ptr(t)
    \/ \E t \in Threads : as_option_mut_ptr(t)
    \/ \E t \in Threads : take(t)
    \/ \E t \in Threads : is_some(t)
    \/ \E t \in Threads : is_none(t)
    \/ \E t \in Threads : drop_ref(t)
    \/ \E t \in Threads : drop_mut(t)
    \/ \E t \in Threads, v \in Args : deref_mut(t, v)

\* The methods of lib.rs alone (no init_or_replace).
NextRelease ==
    \/ \E t \in Threads : get(t)
    \/ \E t \in Threads : get_mut(t)
    \/ \E t \in Threads : as_ptr(t)
    \/ \E t \in Threads : as_mut_ptr(t)
    \/ \E t \in Threads, v \in Args : replace(t, v)
    \/ \E t \in Threads, v \in Args : init(t, v)
    \/ \E t \in Threads : as_option(t)
    \/ \E t \in Threads : as_option_mut(t)
    \/ \E t \in Threads : as_option_ptr(t)
    \/ \E t \in Threads : as_option_mut_ptr(t)
    \/ \E t \in Threads : take(t)
    \/ \E t \in Threads : is_some(t)
    \/ \E t \in Threads : is_none(t)
    \/ \E t \in Threads : drop_ref(t)
    \/ \E t \in Threads : drop_mut(t)
    \/ \E t \in Threads, v \in Args : deref_mut(t, v)

NextInterleaved == Next \/ \E t \in Threads : Resume(t)

Spec == Init /\ [][Next]_vars

SpecRelease == InitRelease /\ [][NextRelease]_vars

\* The debug build of a lib.rs cell with its release build alongside.
SpecBoth == InitBoth /\ [][NextRelease]_vars

SpecInterleaved == InitInterleaved /\ [][NextInterleaved]_vars

TypeOK ==
    /\ kind \in Kinds \cup ReleaseKinds
    /\ cell.borrow \in -1..(MaxShared + Cardinality(Threads))
    /\ cell.thread \in Threads \cup {None}
    /\ cell.initialized \in BOOLEAN
    /\ cell.val \in Values \cup {None, Uninit}

----------------------------------------------------------------------------
(* Properties.                                                              *)

\* Handles alive, counting the temporary one of a call in progress.
Exclusive(t) == held[t].ex + (IF pc[t].temp = "ex" THEN 1 ELSE 0)

Shared(t) == held[t].sh + (IF pc[t].temp = "sh" THEN 1 ELSE 0)

NoneHeld == \A t \in Threads : held[t] = NoHandles

\* The step completes a call of one of ops by thread t.
Returned(t, ops) == last'.t = t /\ last'.op \in ops

RawOps == {"get", "get_mut", "as_ptr", "as_mut_ptr", "replace"}

\* C1: on the AtomicRefCell-backed cells, under every interleaving of calls
\* and handle drops by several threads, an exclusive handle never coexists
\* with any other handle, shared or exclusive.
C1_MutualExclusion ==
    kind \in LibKinds =>
        \A t \in Threads :
            Exclusive(t) > 0 =>
                /\ Exclusive(t) = 1
                /\ Shared(t) = 0
                /\ \A u \in Threads \ {t} : Exclusive(u) = 0 /\ Shared(u) = 0

\* One thread holds the exclusive handle and the other was just refused.
C1_Witness ==
    /\ kind \in LibKinds
    /\ \E t \in Threads :
          /\ held[t].ex = 1
          /\ last.t # t
          /\ last.op \in {"get", "get_mut", "as_ptr", "replace"}
          /\ last.res = "BorrowConflict"

\* Shared handles do coexist, across threads.
C1_SharedCoexist ==
    kind \in LibKinds /\ \A t \in Threads : held[t].sh = 1

\* C2: on one thread, get_mut or replace while that thread keeps a shared
\* handle fails with BorrowConflict, and get or get_mut while it keeps an
\* exclusive handle fails with BorrowConflict.
C2_NestedBorrowConflict ==
    [][\A t \in Threads :
          /\ (held[t].sh > 0 /\ Returned(t, {"get_mut", "replace"}))
                => last'.res = "BorrowConflict"
          /\ (held[t].ex > 0 /\ Returned(t, {"get", "get_mut"}))
                => last'.res = "BorrowConflict"]_vars

C2_Witness ==
    /\ last.op = "get_mut"
    /\ last.res = "BorrowConflict"
    /\ held[last.t].sh > 0
    /\ held[last.t].ex = 0

\* C3: on a Singleton used by one thread, a get, get_mut or replace made while
\* no handle is alive returns normally, and get sees the value of the most
\* recent write (the constructor's value if there was none).
C3_SingletonSequential ==
    [][\A t \in Threads :
          (/\ kind \in {"Singleton", "nightly::Singleton"}
           /\ accessed \subseteq {t}
           /\ NoneHeld
           /\ Returned(t, {"get", "get_mut", "replace"}))
          => /\ last'.res = "ok"
             /\ last'.op = "get" => last'.out = model']_vars

\* A get after two writes.
C3_Witness ==
    /\ kind \in {"Singleton", "nightly::Singleton"}
    /\ accessed = {last.t}
    /\ writes = 2
    /\ last.op = "get"
    /\ last.res = "ok"
    /\ held[last.t] = [sh |-> 1, ex |-> 0]

\* C4: on the thread-tracking cells, once a call has recorded an owning thread
\* no later call changes it, and every later call on the (initialized) cell
\* by another thread fails with ThreadAffinityViolation, whatever the borrow
\* state.
C4_ThreadPinned ==
    [][(kind \in NightlyKinds /\ cell.thread # None)
          => /\ cell'.thread = cell.thread
             /\ \A t \in Threads \ {cell.thread} :
                   (/\ cell.initialized
                    /\ pc[t] = IdleFrame
                    /\ pc'[t] = IdleFrame
                    /\ Returned(t, RawOps))
                   => last'.res = "ThreadAffinityViolation"]_vars

\* A foreign get is refused although the borrow state would admit it.
C4_Witness ==
    /\ kind \in NightlyKinds
    /\ cell.thread \in Threads \ {last.t}
    /\ held[cell.thread].sh = 1
    /\ last.op = "get"
    /\ last.res = "ThreadAffinityViolation"

\* The same when the owner keeps the exclusive handle.
C4_WitnessExclusive ==
    /\ kind \in NightlyKinds
    /\ cell.thread \in Threads \ {last.t}
    /\ held[cell.thread].ex = 1
    /\ last.op = "replace"
    /\ last.res = "ThreadAffinityViolation"

\* The same for calls that interleave: a call whose read of self.thread found
\* an owner does not write the field, and panics if the owner is another
\* thread.  (Two first calls that both read None are not covered: both pass.)
C4_LaterCallsInterleaved ==
    [][\A t \in Threads :
          (/\ kind \in NightlyKinds
           /\ pc[t] # IdleFrame
           /\ pc'[t] # pc[t]
           /\ NextIns(kind, Machine(cell, pc[t])) = "thread_match"
           /\ pc[t].seen # None)
          => /\ cell'.thread = cell.thread
             /\ pc[t].seen # t =>
                   /\ pc'[t] = IdleFrame
                   /\ last'.t = t
                   /\ last'.res = "ThreadAffinityViolation"]_vars

\* C5: on the AtomicRefCell-backed Singleton, a get or get_mut by a thread
\* fails once another thread has accessed the cell.
C5_CrossThreadPanics ==
    (/\ kind = "Singleton"
     /\ last.op \in {"get", "get_mut"}
     /\ accessed \ {last.t} # {})
    => last.res # "ok"

\* C6: before init has succeeded, get, get_mut, as_ptr, as_mut_ptr and
\* replace on a SingletonUninit fail with NotInitialized.
C6_UninitAccessFails ==
    [][\A t \in Threads :
          (/\ kind \in UninitKinds
           /\ ~cell.initialized
           /\ Returned(t, RawOps))
          => last'.res = "NotInitialized"]_vars

C6_Witness ==
    /\ kind \in UninitKinds
    /\ ~cell.initialized
    /\ last.op = "replace"
    /\ last.res = "NotInitialized"

\* C7: init by the owning thread on an initialized SingletonUninit fails with
\* AlreadyInitialized and leaves value, flag and borrow state as they were;
\* at most one init call ever returns normally.
C7_SecondInitFails ==
    [][/\ inits' <= 1
       /\ \A t \in Threads :
             (/\ kind \in UninitKinds
              /\ cell.initialized
              /\ cell.thread \in {None, t}
              /\ Returned(t, {"init"}))
             => /\ last'.res = "AlreadyInitialized"
                /\ cell'.val = cell.val
                /\ cell'.initialized = cell.initialized
                /\ cell'.borrow = cell.borrow]_vars

\* A second init, refused while a handle is alive.
C7_Witness ==
    /\ kind \in UninitKinds
    /\ inits = 1
    /\ last.op = "init"
    /\ last.res = "AlreadyInitialized"
    /\ held[last.t].sh = 1

\* C8: on a SingletonUninit that one thread has initialized with init, a get,
\* get_mut or replace made by that thread while no handle is alive returns
\* normally, and get sees the most recently written value.
C8_UninitSequential ==
    [][\A t \in Threads :
          (/\ kind \in UninitKinds
           /\ inits = 1
           /\ accessed \subseteq {t}
           /\ NoneHeld
           /\ Returned(t, {"get", "get_mut", "replace"}))
          => /\ last'.res = "ok"
             /\ last'.op = "get" => last'.out = model']_vars

\* init, then a later write, then get.
C8_Witness ==
    /\ kind \in UninitKinds
    /\ inits = 1
    /\ writes = 2
    /\ accessed = {last.t}
    /\ last.op = "get"
    /\ last.res = "ok"
    /\ last.out = model

Bool(b) == IF b THEN "true" ELSE "false"

\* C9: a SingletonOption used by one thread with no handle alive behaves like
\* an Option: is_some and is_none report whether a value is held, get and
\* get_mut give the held value or fail with EmptyValue, take returns the held
\* value and leaves None, replace stores Some(v).
C9_OptionReference ==
    [][\A t \in Threads :
          (kind = "SingletonOption" /\ accessed \subseteq {t} /\ NoneHeld /\ last'.t = t)
          => /\ last'.op = "is_some" =>
                    last'.res = "ok" /\ last'.out = Bool(model # None)
             /\ last'.op = "is_none" =>
                    last'.res = "ok" /\ last'.out = Bool(model = None)
             /\ last'.op \in {"get", "get_mut"} =>
                    IF model = None
                    THEN last'.res = "EmptyValue"
                    ELSE last'.res = "ok" /\ last'.out = model
             /\ last'.op = "take" =>
                    last'.res = "ok" /\ last'.out = model /\ cell'.val = None
             /\ last'.op = "replace" =>
                    last'.res = "ok" /\ cell'.val = last'.arg]_vars

\* take has returned the value and emptied the cell.
C9_Witness ==
    /\ kind = "SingletonOption"
    /\ accessed = {last.t}
    /\ last.op = "take"
    /\ last.out \in Values
    /\ cell.val = None

\* get on the emptied cell.
C9_EmptyWitness ==
    /\ kind = "SingletonOption"
    /\ writes > 0
    /\ last.op = "get"
    /\ last.res = "EmptyValue"

\* C10: on a SingletonLazy the initializer runs at most once, exactly when the
\* cell goes from Pending to Resolved, the cell never goes back to Pending,
\* and a get made before any write returns the initializer's output.
C10_LazyOnce ==
    [][kind = "nightly::SingletonLazy"
          => /\ runs' <= 1
             /\ (runs' = 1) <=> (cell'.val # None)
             /\ (cell'.initializer = None) <=> (cell'.val # None)
             /\ cell.val # None => cell'.val # None
             /\ (last'.op = "get" /\ last'.res = "ok" /\ writes' = 0)
                   => last'.out = model']_vars

\* A second get, with the first handle still alive, before any write.
C10_Witness ==
    /\ kind = "nightly::SingletonLazy"
    /\ runs = 1
    /\ writes = 0
    /\ last.op = "get"
    /\ last.res = "ok"
    /\ held[last.t].sh = 2

\* The cell can be used by thread t: initialized, and t is or becomes its owner.
Usable(t) ==
    /\ kind \in UninitKinds => cell.initialized
    /\ kind \in NightlyKinds => cell.thread \in {None, t}

\* Handles of every thread.
AnyExclusive == \E u \in Threads : held[u].ex > 0

AnyShared == \E u \in Threads : held[u].sh > 0

\* C11: on every cell type as_ptr makes the checks of a shared acquire (it
\* returns normally unless an exclusive handle is alive, with shared handles
\* alive too) and as_mut_ptr those of an exclusive acquire (it fails with
\* BorrowConflict while any handle is alive).
C11_RawPointerChecks ==
    [][\A t \in Threads :
          /\ (Usable(t) /\ Returned(t, {"as_ptr"}))
                => last'.res = (IF AnyExclusive THEN "BorrowConflict" ELSE "ok")
          /\ (Usable(t) /\ Returned(t, {"as_mut_ptr"}))
                => last'.res = (IF AnyExclusive \/ AnyShared THEN "BorrowConflict" ELSE "ok")]_vars

\* C12: SingletonOption::as_option_ptr fails while an exclusive handle is
\* alive, and as_option_mut_ptr fails while any handle is alive.
C12_OptionPointerChecks ==
    [][\A t \in Threads :
          /\ (kind = "SingletonOption" /\ AnyExclusive /\ Returned(t, {"as_option_ptr"}))
                => last'.res = "BorrowConflict"
          /\ (/\ kind = "SingletonOption"
              /\ AnyExclusive \/ AnyShared
              /\ Returned(t, {"as_option_mut_ptr"}))
                => last'.res = "BorrowConflict"]_vars

\* C13 as stated: in the release build no operation on Singleton,
\* SingletonUninit or SingletonOption fails, get and get_mut on an empty
\* SingletonOption included.
C13_ReleaseNeverFails ==
    kind \in ReleaseKinds => last.res = "ok"

\* C13, amended: in the release build there is no borrow state and no owning
\* thread, and every call returns normally (with handles overlapping, before
\* init, on a second init) except get and get_mut on a SingletonOption
\* holding None, which fail with EmptyValue.
C13_ReleaseUnchecked ==
    [][(kind \in ReleaseKinds) =>
          /\ cell'.borrow = 0
          /\ cell'.thread = None
          /\ \A t \in Threads :
                Returned(t, Ops(kind)) =>
                    (IF kind = "release::SingletonOption" /\ cell.val = None
                          /\ last'.op \in {"get", "get_mut"}
                     THEN last'.res = "EmptyValue"
                     ELSE last'.res = "ok")]_vars

\* A second init returned while both threads keep handles, one exclusive.
C13_Witness ==
    /\ kind = "release::SingletonUninit"
    /\ inits = 2
    /\ last.op = "init"
    /\ last.res = "ok"
    /\ \E t \in Threads : held[t].ex > 0 /\ \E u \in Threads \ {t} : held[u].sh > 0

\* Two exclusive handles alive after a get_mut on uninitialized storage.
C13_WitnessUninit ==
    /\ kind = "release::SingletonUninit"
    /\ cell.val = Uninit
    /\ ExclusiveHeld = 2
    /\ last.op = "get_mut"
    /\ last.res = "ok"

\* get on an empty SingletonOption in the release build.
C13_WitnessEmpty ==
    /\ kind = "release::SingletonOption"
    /\ cell.val = None
    /\ last.op = "get"
    /\ last.res = "EmptyValue"

\* The threads inside a call that have passed thread_check.
PastThreadCheck == {t \in Threads : pc[t].ip > Len(thread_check)}

\* C14: on a SingletonLazy, under every interleaving of two threads' first
\* accesses, at most one thread passes thread_check, so get_lazy is never
\* entered by two different threads.
C14_LazySingleEntry ==
    kind = "nightly::SingletonLazy" => Cardinality(PastThreadCheck) <= 1

\* C15 as stated: the initialized flag of a SingletonUninit goes from false to
\* true only in an init call that returns normally, and never from true to
\* false.
C15_FlagSetOnlyByInit ==
    [][(kind \in UninitKinds) =>
          /\ (~cell.initialized /\ cell'.initialized)
                => (last'.op = "init" /\ last'.res = "ok")
          /\ cell.initialized => cell'.initialized]_vars

\* C15, amended: the flag goes from false to true only in an init or
\* init_or_replace call that returns normally, and never from true to false.
C15_FlagSetOnlyByInits ==
    [][(kind \in UninitKinds) =>
          /\ (~cell.initialized /\ cell'.initialized)
                => (last'.op \in {"init", "init_or_replace"} /\ last'.res = "ok")
          /\ cell.initialized => cell'.initialized]_vars

\* init_or_replace has set the flag; no init call has returned.
C15_Witness ==
    /\ kind = "nightly::SingletonUninit"
    /\ cell.initialized
    /\ inits = 0
    /\ writes = 1
    /\ last.op = "init_or_replace"
    /\ last.res = "ok"

\* init has set the flag, and a later init_or_replace left it set.
C15_WitnessInit ==
    /\ kind = "nightly::SingletonUninit"
    /\ cell.initialized
    /\ inits = 1
    /\ writes = 2
    /\ last.op = "init_or_replace"
    /\ last.res = "ok"

\* C16: replace(v) on a SingletonLazy that is still Pending runs the
\* initializer once in that call and then stores v: the cell is Resolved, a
\* later get returns the value last written (v, not the initializer's
\* output), and the initializer is never run again.
C16_ReplaceForcesLazy ==
    [][(kind = "nightly::SingletonLazy") =>
          /\ \A t \in Threads :
                (cell.val = None /\ Returned(t, {"replace"}))
                => /\ last'.res = "ok"
                   /\ runs = 0 /\ runs' = 1
                   /\ cell'.initializer = None
                   /\ cell'.val = last'.arg
          /\ cell.val # None => runs' = runs /\ cell'.val # None
          /\ (writes > 0 /\ last'.op = "get" /\ last'.res = "ok")
                => last'.out = model']_vars

\* A get after a replace that resolved the cell: the only write so far.
C16_Witness ==
    /\ kind = "nightly::SingletonLazy"
    /\ runs = 1
    /\ writes = 1
    /\ last.op = "get"
    /\ last.res = "ok"
    /\ last.out = model
    /\ cell.initializer = None
    /\ held[last.t] = [sh |-> 1, ex |-> 0]

\* The first call on the cell is a replace: Pending to Resolved in that call.
C16_WitnessReplace ==
    /\ kind = "nightly::SingletonLazy"
    /\ accessed = {last.t}
    /\ NoneHeld
    /\ runs = 1
    /\ writes = 1
    /\ last.op = "replace"
    /\ last.res = "ok"
    /\ cell.val = last.arg

\* C17: SingletonOption::is_some and is_none never fail on an empty cell (they
\* return false and true), and they make the shared-borrow check: they fail
\* with BorrowConflict while an exclusive handle is alive and return normally
\* while only shared handles are alive.
C17_IsSomeIsNone ==
    [][\A t \in Threads :
          (kind = "SingletonOption" /\ Returned(t, {"is_some", "is_none"}))
          => IF AnyExclusive
             THEN last'.res = "BorrowConflict"
             ELSE /\ last'.res = "ok"
                  /\ last'.op = "is_some" => last'.out = Bool(cell.val # None)
                  /\ last'.op = "is_none" => last'.out = Bool(cell.val = None)
                  /\ cell' = cell]_vars

\* is_none answers true on an empty cell while a shared handle is alive.
C17_Witness ==
    /\ kind = "SingletonOption"
    /\ cell.val = None
    /\ AnyShared
    /\ last.op = "is_none"
    /\ last.res = "ok"
    /\ last.out = "true"

\* is_some is refused while an exclusive handle is alive.
C17_WitnessConflict ==
    /\ kind = "SingletonOption"
    /\ AnyExclusive
    /\ last.op = "is_some"
    /\ last.res = "BorrowConflict"

\* C18: on an uninitialized SingletonUninit the flag check comes first: get,
\* get_mut, as_ptr, as_mut_ptr and replace fail with NotInitialized and leave
\* the owning thread unset and the borrow state free, so that an init by any
\* thread then returns normally and makes that thread the owner.
C18_UninitCheckFirst ==
    [][\A t \in Threads :
          (kind \in UninitKinds /\ ~cell.initialized)
          => /\ cell.thread = None /\ cell.borrow = 0
             /\ Returned(t, RawOps) => last'.res = "NotInitialized" /\ cell' = cell
             /\ Returned(t, {"init"})
                   => /\ last'.res = "ok"
                      /\ cell'.initialized
                      /\ cell'.thread = t]_vars

\* C18 on the thread-tracking SingletonUninit alone, after at least one
\* refused access: the whole statement holds there.
C18_NightlyUninitCheckFirst ==
    [][\A t \in Threads :
          (kind = "nightly::SingletonUninit" /\ ~cell.initialized)
          => /\ cell.thread = None /\ cell.borrow = 0
             /\ Returned(t, RawOps) => last'.res = "NotInitialized" /\ cell' = cell
             /\ Returned(t, {"init"})
                   => /\ last'.res = "ok"
                      /\ cell'.initialized
                      /\ cell'.thread = t]_vars

\* C18 on the AtomicRefCell-backed SingletonUninit, without the owner: the
\* refused accesses leave the cell untouched and init then returns normally.
C18_LibUninitCheckFirst ==
    [][\A t \in Threads :
          (kind = "SingletonUninit" /\ ~cell.initialized)
          => /\ cell.borrow = 0
             /\ Returned(t, RawOps) => last'.res = "NotInitialized" /\ cell' = cell
             /\ Returned(t, {"init"}) => last'.res = "ok" /\ cell'.initialized]_vars

\* One thread's access was refused, then the other thread's init returned.
C18_NightlyWitness ==
    /\ kind = "nightly::SingletonUninit"
    /\ accessed = Threads
    /\ inits = 1
    /\ last.op = "init"
    /\ last.res = "ok"
    /\ cell.thread = last.t

\* C19: only the release of a handle lowers the borrow state, and the release
\* happens on a failing exit too: get or get_mut on a SingletonOption holding
\* None that has acquired its borrow fails with EmptyValue and leaves the
\* borrow state as it was before the call, so that a following replace
\* returns normally.
C19_ReleaseOnFailure ==
    [][/\ (cell.borrow > 0 /\ cell'.borrow < cell.borrow)
             => last'.op = "drop_ref" /\ cell'.borrow = cell.borrow - 1
       /\ (cell.borrow < 0 /\ cell'.borrow # cell.borrow)
             => last'.op = "drop_mut" /\ cell'.borrow = 0
       /\ \A t \in Threads :
             (kind = "SingletonOption" /\ cell.val = None)
             => /\ (~AnyExclusive /\ Returned(t, {"get"}))
                      => last'.res = "EmptyValue" /\ cell' = cell
                /\ (NoneHeld /\ Returned(t, {"get_mut"}))
                      => last'.res = "EmptyValue" /\ cell' = cell
                /\ (/\ last.op \in {"get", "get_mut"}
                    /\ last.res = "EmptyValue"
                    /\ NoneHeld
                    /\ Returned(t, {"replace"}))
                      => last'.res = "ok" /\ cell'.val = last'.arg]_vars

\* get_mut has just failed on an empty cell and the borrow state is free.
C19_Witness ==
    /\ kind = "SingletonOption"
    /\ cell.val = None
    /\ last.op = "get_mut"
    /\ last.res = "EmptyValue"
    /\ NoneHeld
    /\ cell.borrow = 0

\* get has failed while a shared handle was alive: the count is still one.
C19_WitnessShared ==
    /\ kind = "SingletonOption"
    /\ cell.val = None
    /\ last.op = "get"
    /\ last.res = "EmptyValue"
    /\ held[last.t].sh = 1
    /\ cell.borrow = 1

\* The calls that only acquire a handle.
AcquireShared == IF kind = "SingletonOption" THEN {"as_option"} ELSE {"get"}

AcquireExclusive == IF kind = "SingletonOption" THEN {"as_option_mut"} ELSE {"get_mut"}

\* Shared handles alive, of all threads.
SharedHeld == SumShared(held, Threads)

\* C20: the borrow state is the number of shared handles alive (acquired and
\* not yet released), or Exclusive; an exclusive acquire returns normally
\* exactly when every shared handle has been released, and the release of the
\* exclusive handle leaves the state Free, so that the next shared or
\* exclusive acquire returns normally.
C20_BorrowCounts ==
    [][/\ cell.borrow = (IF AnyExclusive THEN -1 ELSE SharedHeld)
       /\ \A t \in Threads :
             /\ (Usable(t) /\ ~AnyExclusive /\ Returned(t, AcquireExclusive))
                   => /\ (last'.res = "ok") <=> (SharedHeld = 0)
                      /\ last'.res \in {"ok", "BorrowConflict"}
             /\ (Usable(t) /\ last.op = "drop_mut" /\ Returned(t, AcquireShared))
                   => last'.res = "ok" /\ cell'.borrow = 1
             /\ (Usable(t) /\ last.op = "drop_mut" /\ Returned(t, AcquireExclusive))
                   => last'.res = "ok" /\ cell'.borrow = -1
       /\ last'.op = "drop_mut" => cell'.borrow = 0]_vars

\* An exclusive acquire is refused: one shared handle, of the other thread,
\* is still alive.
C20_Witness ==
    /\ kind \in LibKinds
    /\ last.op \in AcquireExclusive
    /\ last.res = "BorrowConflict"
    /\ SharedHeld = 1
    /\ held[last.t].sh = 0
    /\ cell.borrow = 1

\* Two shared acquires and one release: one handle is alive.
C20_WitnessReleased ==
    /\ kind \in LibKinds
    /\ last.op = "drop_ref"
    /\ SharedHeld = 1
    /\ cell.borrow = 1

\* The exclusive handle was written through and released: the state is Free.
C20_WitnessReleasedMut ==
    /\ kind \in LibKinds
    /\ last.op = "drop_mut"
    /\ writes = 1
    /\ NoneHeld
    /\ cell.borrow = 0

\* The calls that acquire a handle and release it before they return.
TransientOps == {"as_ptr", "as_mut_ptr", "replace", "take", "is_some", "is_none"}

\* C21: as_ptr, as_mut_ptr, replace, take, is_some and is_none keep their
\* borrow only while the call runs: when one returns normally the borrow state
\* is what it was before the call, so a get or get_mut made right after a
\* pointer was obtained fails with BorrowConflict only because of a handle
\* that is alive.
C21_TransientBorrow ==
    [][\A t \in Threads :
          /\ (Returned(t, TransientOps) /\ last'.res = "ok")
                => cell'.borrow = cell.borrow
          /\ (/\ last.op \in {"as_ptr", "as_mut_ptr"}
              /\ last.res = "ok"
              /\ Returned(t, {"get", "get_mut"})
              /\ last'.res = "BorrowConflict")
                => \/ AnyExclusive
                   \/ last'.op = "get_mut" /\ AnyShared
          /\ (/\ last.op \in {"as_ptr", "as_mut_ptr"}
              /\ last.res = "ok"
              /\ NoneHeld
              /\ Usable(t)
              /\ Returned(t, {"get", "get_mut"}))
                => last'.res = "ok"]_vars

\* as_ptr returned while the other thread keeps a shared handle: the count is
\* still one.
C21_Witness ==
    /\ kind \in {"Singleton", "nightly::Singleton", "nightly::SingletonUninit"}
    /\ last.op = "as_ptr"
    /\ last.res = "ok"
    /\ SharedHeld = 1
    /\ cell.borrow = 1

\* as_mut_ptr returned on a SingletonUninit and left the cell free.
C21_WitnessMut ==
    /\ kind \in UninitKinds
    /\ last.op = "as_mut_ptr"
    /\ last.res = "ok"
    /\ NoneHeld
    /\ cell.borrow = 0

\* The calls whose returned value the two builds are compared on.
ValueOps == {"get", "take", "is_some", "is_none"}

\* C22: on every sequence of calls on a lib.rs Singleton, SingletonUninit or
\* SingletonOption in which the debug build raises no failure, the release
\* build raises none either and returns the same value from every get, take,
\* is_some and is_none (and stores the same value).
C22_BuildsAgree ==
    [][(twin.on /\ twin.clean /\ last'.res = "ok") =>
          /\ twin'.clean
          /\ twin'.res = "ok"
          /\ twin'.cell.val = cell'.val
          /\ last'.op \in ValueOps => twin'.out = last'.out]_vars

\* Both builds: init, a later write, then a get that returns it.
C22_Witness ==
    /\ twin.on
    /\ twin.clean
    /\ kind = "SingletonUninit"
    /\ inits = 1
    /\ writes = 2
    /\ last.op = "get"
    /\ last.res = "ok"
    /\ last.out \in Values
    /\ twin.res = "ok"
    /\ twin.out = last.out

\* Both builds: take has returned the value and emptied the cell.
C22_WitnessTake ==
    /\ twin.on
    /\ twin.clean
    /\ kind = "SingletonOption"
    /\ last.op = "take"
    /\ last.out \in Values
    /\ twin.out = last.out
    /\ twin.cell.val = None

\* After a failure of the debug build the two builds may differ: the release
\* build has made the write that the debug build refused.
C22_WitnessDiverged ==
    /\ twin.on
    /\ ~twin.clean
    /\ twin.cell.val # cell.val

\* C23: on a SingletonUninit whose initialized flag is false no shared or
\* exclusive handle is alive and the borrow state is free, so that init on
\* the not yet initialized cell never fails with BorrowConflict.
C23_UninitFree ==
    [][(kind \in UninitKinds /\ ~cell.initialized) =>
          /\ NoneHeld
          /\ cell.borrow = 0
          /\ \A t \in Threads :
                Returned(t, {"init", "init_or_replace"}) => last'.res = "ok"]_vars

\* A refused access by one thread, then the init of the other, on the
\* AtomicRefCell-backed cell.
C23_Witness ==
    /\ kind = "SingletonUninit"
    /\ accessed = Threads
    /\ NoneHeld
    /\ inits = 1
    /\ writes = 1
    /\ last.op = "init"
    /\ last.res = "ok"

\* The cell is still uninitialized after a refused get_mut, and free.
C23_WitnessRefused ==
    /\ kind \in UninitKinds
    /\ ~cell.initialized
    /\ last.op = "get_mut"
    /\ last.res = "NotInitialized"
    /\ cell.borrow = 0

\* C23 when calls of two threads interleave: while the flag is false no
\* handle has been returned to a caller.  (The temporary exclusive borrow
\* inside init exists before the flag is set; only a second init racing with
\* the first can meet it.)
C23_NoHandleBeforeInit ==
    (kind \in UninitKinds /\ ~cell.initialized) => NoneHeld

====
